---- MODULE Spec2Model ----
(***************************************************************************)
(* Model of the ResourceManager of the 3D configurator (src/constants.ts,   *)
(* lines 45-309): the texture and model caches, the usage tracker, the      *)
(* periodic cleanup and the batch preload, with the asynchronous loads      *)
(* (THREE.TextureLoader, useGLTF) as calls in flight.                       *)
(***************************************************************************)
EXTENDS Integers, Sequences, FiniteSets, TLC

\* ------------------------------------------------------------------ bounds
MaxCalls == 2        \* acquisitions (getTexture / getModel calls) ever issued
MaxBatch == 2        \* longest url array handed to preloadTextures / preloadModels
MaxBatches == 1      \* batch preloads ever issued
TickStep == 31000    \* milliseconds by which Date.now() advances in one step
MaxNow == 62000      \* last instant of Date.now() that is explored
MaxLODs == 2         \* THREE.LOD objects ever made by createLOD

\* ------------------------------------------------------- program constants
TEXTURE_CLEANUP_THRESHOLD == 30000
MODEL_CLEANUP_THRESHOLD == 60000
CLEANUP_PERIOD == 30000

\* --------------------------------------------------------------- inputs
TextureUrls == {"a.jpg", "b.jpg"}
ModelUrlSeq == <<"m.glb">>
ModelUrls == {ModelUrlSeq[i] : i \in 1..Len(ModelUrlSeq)}
SweepUrls == {"a.jpg"}   \* the texture requested where time passes

\* The optional second argument of getTexture: absent, or an object literal
\* given as the sequence of its own properties in insertion order.
NoOptions == [defined |-> FALSE, fields |-> <<>>]
EmptyOptions == [defined |-> TRUE, fields |-> <<>>]
OptionsSet == {NoOptions, EmptyOptions}

Null == 0            \* the null a failed load resolves to

\* JSON.stringify of an object literal whose values are already JSON text.
RECURSIVE JoinFields(_)
JoinFields(fs) ==
  IF fs = <<>> THEN ""
  ELSE "\"" \o fs[1][1] \o "\":" \o fs[1][2]
       \o (IF Len(fs) > 1 THEN "," ELSE "") \o JoinFields(Tail(fs))

JSONstringify(fields) == "{" \o JoinFields(fields) \o "}"

\* const cacheKey = `${url}-${JSON.stringify(options || {})}`
cacheKey(url, options) ==
  url \o "-" \o JSONstringify(IF options.defined THEN options.fields ELSE <<>>)

TextureKeys == {cacheKey(u, o) : u \in TextureUrls, o \in OptionsSet}

\* Strings a caller can hand to releaseResource.
ReleaseArgs == TextureKeys \cup ModelUrls \cup TextureUrls

Keys == TextureKeys \cup ModelUrls

\* ------------------------------------------------------------ Map helpers
EmptyMap == [k \in {} |-> Null]
MapSet(m, k, v) == [x \in (DOMAIN m) \cup {k} |-> IF x = k THEN v ELSE m[x]]
\* A delete that removes nothing.
MapDeleteNothing(m, k) == m

MapDelete(m, k) == [x \in (DOMAIN m) \ {k} |-> m[x]]
MapHas(m, k) == k \in DOMAIN m
MapValues(m) == {m[k] : k \in DOMAIN m}

VARIABLES
  textureCache,     \* Map<string, THREE.Texture>: key -> handle
  modelCache,       \* Map<string, any>: key -> handle
  usageTracker,     \* Map<string, ResourceUsage>
  cleanupInterval,  \* TRUE while the setInterval timer is armed
  nextCleanup,      \* instant at which the timer is next due
  now,              \* Date.now()
  calls,            \* every getTexture / getModel call issued so far
  batches,          \* every Promise.all of a preload issued so far
  disposeCount,     \* handle -> number of dispose() invocations on it
  outstanding,      \* history: key -> acquisitions issued and not yet released
  lastOp,           \* history: the operation that produced the current state
  lods,             \* LODManager.lods: Map<string, THREE.LOD>, key -> LOD object
  lodObjects,       \* every THREE.LOD made by createLOD so far
  config,           \* App: the ConfiguratorState held by useState
  activeDragId      \* Scene: the id of the object being dragged, or NoId

lodVars == <<lods, lodObjects>>
appVars == <<config, activeDragId>>

vars == <<textureCache, modelCache, usageTracker, cleanupInterval, nextCleanup,
          now, calls, batches, disposeCount, outstanding, lastOp,
          lods, lodObjects, config, activeDragId>>

\* A texture handle is named by the call whose load produced it: every
\* TextureLoader.load makes a new THREE.Texture.  useGLTF keeps one parsed
\* model per url, so a model handle is named by its url.
gltf(url) == MaxCalls + (CHOOSE i \in 1..Len(ModelUrlSeq) : ModelUrlSeq[i] = url)
Handles == 1..(MaxCalls + Len(ModelUrlSeq))
TextureHandles == 1..MaxCalls

Op(name, key) == [op |-> name, key |-> key]

CallIds == 1..Len(calls)
Loading(c) == calls[c].status = "loading"
LoadingIn(cs, kind, key) ==
  {c \in 1..Len(cs) : /\ cs[c].status = "loading"
                      /\ cs[c].kind = kind /\ cs[c].key = key}
InFlight(kind, key) == LoadingIn(calls, kind, key)

Max(a, b) == IF a >= b THEN a ELSE b

\* ---------------------------------------------------------- usage tracking
\* trackResource that starts the count at 0.
trackResourceUnreferenced(usage, key, type) ==
  MapSet(usage, key, [lastUsed |-> now, referenceCount |-> 0, type |-> type])

\* trackResource that writes no record.
trackResourceNowhere(usage, key, type) == usage

\* private trackResource(key, type)
trackResource(usage, key, type) ==
  MapSet(usage, key, [lastUsed |-> now, referenceCount |-> 1, type |-> type])

\* updateUsage that restarts the record instead of counting the use.
updateUsageRestarting(usage, key, type) == trackResource(usage, key, type)

\* private updateUsage(key, type)
updateUsage(usage, key, type) ==
  IF MapHas(usage, key)
  THEN MapSet(usage, key, [usage[key] EXCEPT !.lastUsed = now,
                                             !.referenceCount = @ + 1])
  ELSE trackResource(usage, key, type)

\* ------------------------------------------------------------ Promise.all
BatchCalls(cs, b) == {c \in 1..Len(cs) : cs[c].batch = b}
CallAt(cs, b, i) == CHOOSE c \in BatchCalls(cs, b) : cs[c].idx = i

\* Promise.all(urls.map(...)): rejects as soon as one element rejects,
\* fulfils with the elements' values in index order once all have fulfilled.
PromiseAll(cs, bs) ==
  IF bs = <<>> THEN bs ELSE
  [b \in 1..Len(bs) |->
     IF bs[b].status # "pending" THEN bs[b]
     ELSE IF \E c \in BatchCalls(cs, b) : cs[c].status = "rejected"
       THEN [bs[b] EXCEPT !.status = "rejected"]
     ELSE IF \A c \in BatchCalls(cs, b) : cs[c].status = "fulfilled"
       THEN [bs[b] EXCEPT !.status = "fulfilled",
                          !.results = [i \in 1..bs[b].size |->
                                         cs[CallAt(cs, b, i)].result]]
     ELSE bs[b]]

\* ------------------------------------------------------------- LODManager
\* The distance arrays handed to createLOD; the second is the default.
DistanceLists == {<<>>, <<10, 20, 50>>, <<20, 10>>}

\* distances.join('-')
RECURSIVE join(_)
join(distances) ==
  IF distances = <<>> THEN ""
  ELSE IF Len(distances) = 1 THEN ToString(distances[1])
  ELSE ToString(distances[1]) \o "-" \o join(Tail(distances))

\* const lodKey = `${modelUrl}-${distances.join('-')}`
lodKey(modelUrl, distances) == modelUrl \o "-" \o join(distances)

Abs(x) == IF x < 0 THEN 0 - x ELSE x

\* THREE.LOD.addLevel(object, distance): the level goes in front of the first
\* level that is farther away, after the levels at the same distance.
addLevel(levels, object, distance) ==
  LET d == Abs(distance)
      l == Cardinality({i \in 1..Len(levels) : levels[i].distance <= d})
  IN SubSeq(levels, 1, l) \o <<[distance |-> d, object |-> object]>>
       \o SubSeq(levels, l + 1, Len(levels))

\* distances.forEach(distance => lod.addLevel(fullModel.clone(), distance))
RECURSIVE addSimplified(_, _)
addSimplified(levels, distances) ==
  IF distances = <<>> THEN levels
  ELSE addSimplified(addLevel(levels, "simplified", distances[1]),
                     Tail(distances))

\* A callback that adds the simplified clones and forgets the full model.
thenCallbackClonesOnly(lod, model) ==
  IF model # Null
  THEN [lod EXCEPT !.levels = addSimplified(lod.levels, lod.distances)]
  ELSE lod

\* The callback createLOD hands to getModel(modelUrl).then: with a model it
\* adds the full model at distance 0 and one clone per distance, with null
\* it adds nothing.
thenCallback(lod, model) ==
  IF model # Null
  THEN [lod EXCEPT !.levels =
          addSimplified(addLevel(lod.levels, "full", 0), lod.distances)]
  ELSE lod

\* The callbacks that wait for call c run when it settles.
thenAddLevels(objs, c, model) ==
  IF objs = <<>> THEN objs ELSE
  [o \in 1..Len(objs) |->
     IF objs[o].call = c THEN thenCallback(objs[o], model) ELSE objs[o]]

\* ------------------------------------------------- getTexture / getModel
\* overlap: the earlier calls whose load of the same key was still in flight
\* when this one started its own; cleared: clearAll ran while it was loading.
NewCall(cs, kind, key, status, result, batch, idx) ==
  [kind |-> kind, key |-> key, status |-> status, result |-> result,
   batch |-> batch, idx |-> idx,
   overlap |-> IF status = "loading" THEN LoadingIn(cs, kind, key) ELSE {},
   cleared |-> FALSE]

\* An acquisition that remembers failures: a key whose load has failed
\* resolves to null at once.
AcquireRememberingFailure(st, cache, kind, key, batch, idx) ==
  IF MapHas(cache, key)
  THEN [usage |-> updateUsage(st.usage, key, kind),
        calls |-> Append(st.calls,
                    NewCall(st.calls, kind, key, "fulfilled", cache[key], batch, idx)),
        out |-> [st.out EXCEPT ![key] = @ + 1]]
  ELSE IF \E c \in 1..Len(st.calls) :
            /\ st.calls[c].kind = kind /\ st.calls[c].key = key
            /\ st.calls[c].status = "fulfilled" /\ st.calls[c].result = Null
  THEN [usage |-> st.usage,
        calls |-> Append(st.calls,
                    NewCall(st.calls, kind, key, "fulfilled", Null, batch, idx)),
        out |-> st.out]
  ELSE [usage |-> st.usage,
        calls |-> Append(st.calls,
                    NewCall(st.calls, kind, key, "loading", Null, batch, idx)),
        out |-> [st.out EXCEPT ![key] = @ + 1]]

\* The part of an acquisition that runs before its first await: the cache
\* lookup, and on a hit updateUsage and the return of the cached value.
\* st carries the fields a run of several acquisitions threads through.
Acquire(st, cache, kind, key, batch, idx) ==
  IF MapHas(cache, key)
  THEN [usage |-> updateUsage(st.usage, key, kind),
        calls |-> Append(st.calls,
                    NewCall(st.calls, kind, key, "fulfilled", cache[key], batch, idx)),
        out |-> [st.out EXCEPT ![key] = @ + 1]]
  ELSE [usage |-> st.usage,
        calls |-> Append(st.calls,
                    NewCall(st.calls, kind, key, "loading", Null, batch, idx)),
        out |-> [st.out EXCEPT ![key] = @ + 1]]

Current == [usage |-> usageTracker, calls |-> calls, out |-> outstanding]

\* async getTexture(url, options), up to the await of the loader
getTexture(url, options) ==
  /\ Len(calls) < MaxCalls
  /\ LET key == cacheKey(url, options)
         st == Acquire(Current, textureCache, "texture", key, 0, 0)
     IN /\ usageTracker' = st.usage
        /\ calls' = st.calls
        /\ outstanding' = st.out
        /\ lastOp' = Op("getTexture", key)
  /\ UNCHANGED <<textureCache, modelCache, cleanupInterval, nextCleanup, now,
                 batches, disposeCount>>
  /\ UNCHANGED <<lodVars, appVars>>

\* async getModel(url), up to the await of the dynamic import
getModel(url) ==
  /\ Len(calls) < MaxCalls
  /\ LET st == Acquire(Current, modelCache, "model", url, 0, 0)
     IN /\ usageTracker' = st.usage
        /\ calls' = st.calls
        /\ outstanding' = st.out
        /\ lastOp' = Op("getModel", url)
  /\ UNCHANGED <<textureCache, modelCache, cleanupInterval, nextCleanup, now,
                 batches, disposeCount>>
  /\ UNCHANGED <<lodVars, appVars>>

\* A catch block that lets the error through: the call rejects.
rethrowLoadError(call) == [call EXCEPT !.status = "rejected"]

\* The catch block of getTexture / getModel: console.warn and return null.
catchLoadError(call) == [call EXCEPT !.status = "fulfilled", !.result = Null]

\* The loader reports success: the texture is stored and tracked, and the
\* call resolves to it.  The handle carries the number of the call.
getTextureLoaded(c) ==
  /\ c \in CallIds /\ Loading(c) /\ calls[c].kind = "texture"
  /\ textureCache' = MapSet(textureCache, calls[c].key, c)
  /\ usageTracker' = trackResource(usageTracker, calls[c].key, "texture")
  /\ calls' = [calls EXCEPT ![c].status = "fulfilled", ![c].result = c]
  /\ batches' = PromiseAll(calls', batches)
  /\ lastOp' = Op("getTextureLoaded", calls[c].key)
  /\ UNCHANGED <<modelCache, cleanupInterval, nextCleanup, now, disposeCount,
                 outstanding>>
  /\ UNCHANGED <<lodVars, appVars>>

\* The loader reports an error.
getTextureFailed(c) ==
  /\ c \in CallIds /\ Loading(c) /\ calls[c].kind = "texture"
  /\ calls' = [calls EXCEPT ![c] = catchLoadError(calls[c])]
  /\ batches' = PromiseAll(calls', batches)
  /\ outstanding' = [outstanding EXCEPT ![calls[c].key] = Max(@ - 1, 0)]
  /\ lastOp' = Op("getTextureFailed", calls[c].key)
  /\ UNCHANGED <<textureCache, modelCache, usageTracker, cleanupInterval,
                 nextCleanup, now, disposeCount>>
  /\ UNCHANGED <<lodVars, appVars>>

\* The import has resolved and useGLTF(url) returns the model.
getModelLoaded(c) ==
  /\ c \in CallIds /\ Loading(c) /\ calls[c].kind = "model"
  /\ modelCache' = MapSet(modelCache, calls[c].key, gltf(calls[c].key))
  /\ usageTracker' = trackResource(usageTracker, calls[c].key, "model")
  /\ calls' = [calls EXCEPT ![c].status = "fulfilled",
                           ![c].result = gltf(calls[c].key)]
  /\ batches' = PromiseAll(calls', batches)
  /\ lastOp' = Op("getModelLoaded", calls[c].key)
  /\ UNCHANGED <<textureCache, cleanupInterval, nextCleanup, now, disposeCount,
                 outstanding>>
  /\ lodObjects' = thenAddLevels(lodObjects, c, calls'[c].result)
  /\ UNCHANGED <<lods, appVars>>

\* The import rejects or useGLTF(url) throws.
getModelFailed(c) ==
  /\ c \in CallIds /\ Loading(c) /\ calls[c].kind = "model"
  /\ calls' = [calls EXCEPT ![c] = catchLoadError(calls[c])]
  /\ batches' = PromiseAll(calls', batches)
  /\ outstanding' = [outstanding EXCEPT ![calls[c].key] = Max(@ - 1, 0)]
  /\ lastOp' = Op("getModelFailed", calls[c].key)
  /\ UNCHANGED <<textureCache, modelCache, usageTracker, cleanupInterval,
                 nextCleanup, now, disposeCount>>
  /\ lodObjects' = thenAddLevels(lodObjects, c, calls'[c].result)
  /\ UNCHANGED <<lods, appVars>>

\* ------------------------------------------------------------ batch preload
SeqsUpTo(S, n) == UNION {[1..m -> S] : m \in 0..n}

\* urls.map(url => this.getTexture(url)): the acquisitions start one after
\* the other, in array order, before any of them resumes.
RECURSIVE AcquireAll(_, _, _, _, _, _)
AcquireAll(st, cache, kind, keys, b, i) ==
  IF i > Len(keys) THEN st
  ELSE AcquireAll(Acquire(st, cache, kind, keys[i], b, i),
                  cache, kind, keys, b, i + 1)

NewBatch(keys) ==
  [keys |-> keys, size |-> Len(keys), status |-> "pending", results |-> <<>>]

\* preloadTextures(urls)
preloadTextures(urls) ==
  /\ Len(batches) < MaxBatches
  /\ Len(calls) + Len(urls) <= MaxCalls
  /\ LET keys == [i \in 1..Len(urls) |-> cacheKey(urls[i], NoOptions)]
         st == AcquireAll(Current, textureCache, "texture", keys,
                          Len(batches) + 1, 1)
     IN /\ usageTracker' = st.usage
        /\ calls' = st.calls
        /\ outstanding' = st.out
        /\ batches' = PromiseAll(st.calls, Append(batches, NewBatch(keys)))
  /\ lastOp' = Op("preloadTextures", "")
  /\ UNCHANGED <<textureCache, modelCache, cleanupInterval, nextCleanup, now,
                 disposeCount>>
  /\ UNCHANGED <<lodVars, appVars>>

\* preloadModels(urls)
preloadModels(urls) ==
  /\ Len(batches) < MaxBatches
  /\ Len(calls) + Len(urls) <= MaxCalls
  /\ LET st == AcquireAll(Current, modelCache, "model", urls,
                          Len(batches) + 1, 1)
     IN /\ usageTracker' = st.usage
        /\ calls' = st.calls
        /\ outstanding' = st.out
        /\ batches' = PromiseAll(st.calls, Append(batches, NewBatch(urls)))
  /\ lastOp' = Op("preloadModels", "")
  /\ UNCHANGED <<textureCache, modelCache, cleanupInterval, nextCleanup, now,
                 disposeCount>>
  /\ UNCHANGED <<lodVars, appVars>>

\* ------------------------------------------------------- release and sweep
Store == [tc |-> textureCache, mc |-> modelCache, usage |-> usageTracker,
          disp |-> disposeCount]

\* release that lowers the reference count of the record by one and keeps
\* the entry.
releaseDecrementing(st, url) ==
  [tc |-> st.tc,
   mc |-> st.mc,
   usage |-> IF MapHas(st.usage, url)
             THEN [st.usage EXCEPT ![url].referenceCount = @ - 1]
             ELSE st.usage,
   disp |-> st.disp]

\* release that disposes the texture and leaves it in the cache.
releaseKeepingTexture(st, url) ==
  [tc |-> st.tc,
   mc |-> MapDelete(st.mc, url),
   usage |-> MapDelete(st.usage, url),
   disp |-> IF MapHas(st.tc, url)
            THEN [st.disp EXCEPT ![st.tc[url]] = @ + 1]
            ELSE st.disp]

\* releaseResource(url) as a function of the store: the texture under url is
\* disposed and deleted, the model under url is deleted, the usage record
\* is deleted.
release(st, url) ==
  [tc |-> MapDelete(st.tc, url),
   mc |-> MapDelete(st.mc, url),
   usage |-> MapDelete(st.usage, url),
   disp |-> IF MapHas(st.tc, url)
            THEN [st.disp EXCEPT ![st.tc[url]] = @ + 1]
            ELSE st.disp]

\* What a call of releaseResource(url) reports to its caller: the method is
\* declared void and has no throw, whatever the store holds.
releaseOutcome(st, url) == "void"

releaseResource(url) ==
  /\ LET st == release(Store, url)
     IN /\ textureCache' = st.tc
        /\ modelCache' = st.mc
        /\ usageTracker' = st.usage
        /\ disposeCount' = st.disp
  /\ outstanding' = IF url \in Keys
                    THEN [outstanding EXCEPT ![url] = Max(@ - 1, 0)]
                    ELSE outstanding
  /\ lastOp' = Op("releaseResource", url)
  /\ UNCHANGED <<cleanupInterval, nextCleanup, now, calls, batches>>
  /\ UNCHANGED <<lodVars, appVars>>

Threshold(usage) ==
  IF usage.type = "texture" THEN TEXTURE_CLEANUP_THRESHOLD
  ELSE MODEL_CLEANUP_THRESHOLD

\* Unused without its test of the reference count.
UnusedIgnoringReferences(usage) ==
  now - usage.lastUsed > Threshold(usage)

\* The test of cleanupUnusedResources that puts a key on toRemove.
Unused(usage) ==
  now - usage.lastUsed > Threshold(usage) /\ usage.referenceCount = 0

\* A scan that marks every tracked key.
ToRemoveTracked == DOMAIN usageTracker

ToRemove == {k \in DOMAIN usageTracker : Unused(usageTracker[k])}

\* toRemove.forEach(key => this.releaseResource(key)); the keys are distinct,
\* so the order of the releases does not show in the result.
RECURSIVE releaseEach(_, _)
releaseEach(st, ks) ==
  IF ks = {} THEN st
  ELSE LET k == CHOOSE x \in ks : TRUE
       IN releaseEach(release(st, k), ks \ {k})

\* The setInterval callback: cleanupUnusedResources()
cleanupUnusedResources ==
  /\ cleanupInterval
  /\ now >= nextCleanup
  /\ nextCleanup' = nextCleanup + CLEANUP_PERIOD
  /\ LET st == releaseEach(Store, ToRemove)
     IN /\ textureCache' = st.tc
        /\ modelCache' = st.mc
        /\ usageTracker' = st.usage
        /\ disposeCount' = st.disp
  /\ outstanding' = [k \in Keys |-> IF k \in ToRemove THEN 0 ELSE outstanding[k]]
  /\ lastOp' = Op("cleanupUnusedResources", "")
  /\ UNCHANGED <<cleanupInterval, now, calls, batches>>
  /\ UNCHANGED <<lodVars, appVars>>

\* ------------------------------------------------------ clearAll / destroy
\* clearAll without the disposal of the textures.
DisposeNone(tc, disp) == disp

\* textureCache.forEach(texture => texture.dispose()): one dispose per entry.
DisposeAll(tc, disp) ==
  [h \in DOMAIN disp |-> disp[h] + Cardinality({k \in DOMAIN tc : tc[k] = h})]

ClearEffect ==
  /\ disposeCount' = DisposeAll(textureCache, disposeCount)
  /\ textureCache' = EmptyMap
  /\ modelCache' = EmptyMap
  /\ usageTracker' = EmptyMap
  /\ calls' = [c \in CallIds |->
                 IF Loading(c) THEN [calls[c] EXCEPT !.cleared = TRUE]
                 ELSE calls[c]]
  /\ outstanding' = [k \in Keys |->
                       Cardinality({c \in CallIds : Loading(c) /\ calls[c].key = k})]

clearAll ==
  /\ ClearEffect
  /\ lastOp' = Op("clearAll", "")
  /\ UNCHANGED <<cleanupInterval, nextCleanup, now, batches>>
  /\ UNCHANGED <<lodVars, appVars>>

\* destroy that clears the store and leaves the timer armed.
destroyKeepingTimer ==
  /\ ClearEffect
  /\ lastOp' = Op("destroy", "")
  /\ UNCHANGED <<cleanupInterval, nextCleanup, now, batches>>
  /\ UNCHANGED <<lodVars, appVars>>

destroy ==
  /\ cleanupInterval' = FALSE
  /\ ClearEffect
  /\ lastOp' = Op("destroy", "")
  /\ UNCHANGED <<nextCleanup, now, batches>>
  /\ UNCHANGED <<lodVars, appVars>>

\* ------------------------------------------------- createLOD / clearLODs
\* const lod = new THREE.LOD(): no levels yet; call is the getModel call
\* whose promise carries the callback.
NewLOD(modelUrl, distances, c) ==
  [key |-> lodKey(modelUrl, distances), url |-> modelUrl,
   distances |-> distances, call |-> c, levels |-> <<>>]

\* createLOD(modelUrl, distances).  A key already in lods returns the LOD
\* stored under it.  Otherwise getModel is called, the new LOD is stored and
\* returned; when getModel found the model in its cache its promise is
\* already fulfilled and the callback runs as soon as createLOD's caller
\* yields, before any other handler.
createLOD(modelUrl, distances) ==
  LET key == lodKey(modelUrl, distances) IN
  /\ lastOp' = Op("createLOD", key)
  /\ IF MapHas(lods, key)
     THEN UNCHANGED <<usageTracker, calls, outstanding, lods, lodObjects>>
     ELSE /\ Len(calls) < MaxCalls
          /\ Len(lodObjects) < MaxLODs
          /\ LET st == Acquire(Current, modelCache, "model", modelUrl, 0, 0)
                 c == Len(st.calls)
                 objs == Append(lodObjects, NewLOD(modelUrl, distances, c))
             IN /\ usageTracker' = st.usage
                /\ calls' = st.calls
                /\ outstanding' = st.out
                /\ lodObjects' = IF st.calls[c].status = "fulfilled"
                                 THEN thenAddLevels(objs, c, st.calls[c].result)
                                 ELSE objs
                /\ lods' = MapSet(lods, key, Len(objs))
  /\ UNCHANGED <<textureCache, modelCache, cleanupInterval, nextCleanup, now,
                 batches, disposeCount, appVars>>

\* clearLODs(): this.lods.clear()
clearLODs ==
  /\ lods' = EmptyMap
  /\ lastOp' = Op("clearLODs", "")
  /\ UNCHANGED <<textureCache, modelCache, usageTracker, cleanupInterval,
                 nextCleanup, now, calls, batches, disposeCount, outstanding,
                 lodObjects, appVars>>

\* ------------------------------------------------------------------- time
Tick ==
  /\ now + TickStep <= MaxNow
  /\ now' = now + TickStep
  /\ lastOp' = Op("Tick", "")
  /\ UNCHANGED <<textureCache, modelCache, usageTracker, cleanupInterval,
                 nextCleanup, calls, batches, disposeCount, outstanding>>
  /\ UNCHANGED <<lodVars, appVars>>

\* -------------------------------------------------------------- App, Scene
\* The fields of ConfiguratorState that updateConfig reads to place the
\* plinth on the site, in centimetres.  Its other fields (materials, the
\* flowerbed sizes, monumentPos, ...) are written from these and never read
\* back into them.  The two copies of updateConfig in App.tsx treat these
\* fields alike.
InitialConfig ==
  [siteWidth |-> 300, siteLength |-> 300,
   plinthWidth |-> 200, plinthLength |-> 200,
   plinthPos |-> [x |-> 0, y |-> 0]]

\* What the callers pass: the sliders of the sidebar give multiples of 10,
\* a drag gives a point of the ground plane.
SiteSizes == {200, 500}
PlinthSizes == {100, 300}
Points == {[x |-> 0, y |-> 0], [x |-> 150, y |-> -150],
           [x |-> -150, y |-> 150]}

Min(a, b) == IF a <= b THEN a ELSE b

\* Partial<ConfiguratorState>: a record with some of the fields.
Fields(r, names) == [f \in names |-> r[f]]
Updates ==
  {Fields(r, names) :
     r \in [siteWidth : SiteSizes, siteLength : SiteSizes,
            plinthWidth : PlinthSizes, plinthLength : PlinthSizes,
            plinthPos : Points],
     names \in SUBSET {"siteWidth", "siteLength", "plinthWidth",
                       "plinthLength", "plinthPos"}}

\* updates.f !== undefined
Carries(updates, f) == f \in DOMAIN updates

\* const next = { ...prev, ...updates }
Spread(prev, updates) ==
  [f \in DOMAIN prev |-> IF Carries(updates, f) THEN updates[f] ELSE prev[f]]

\* A site size that is taken as it comes.
SiteAsPassed(site, plinth, sitePassed, plinthPassed) == site

\* The two ifs on one site size; site and plinth are the fields of next
\* after the spread, which are the fields of updates where it carries them.
SiteAfter(site, plinth, sitePassed, plinthPassed) ==
  LET grown == IF plinthPassed THEN Max(site, plinth + 100) ELSE site
  IN IF sitePassed THEN Max(site, plinth + 100) ELSE grown

\* A clamp that lets every value through.
ClampNothing(v, limit) == v

\* Math.max(-limit, Math.min(limit, v))
Clamp(v, limit) == Max(0 - limit, Min(limit, v))

\* The updater function updateConfig hands to setConfig.
nextConfig(prev, updates) ==
  LET next == Spread(prev, updates)
      siteWidth == SiteAfter(next.siteWidth, next.plinthWidth,
                             Carries(updates, "siteWidth"),
                             Carries(updates, "plinthWidth"))
      siteLength == SiteAfter(next.siteLength, next.plinthLength,
                              Carries(updates, "siteLength"),
                              Carries(updates, "plinthLength"))
      swLimit == (siteWidth - next.plinthWidth) \div 2
      slLimit == (siteLength - next.plinthLength) \div 2
  IN [next EXCEPT !.siteWidth = siteWidth,
                  !.siteLength = siteLength,
                  !.plinthPos = [x |-> Clamp(next.plinthPos.x, swLimit),
                                 y |-> Clamp(next.plinthPos.y, slLimit)]]

\* What the history keeps of an update: whether it carried plinthPos, and
\* if not whether it moved the plinth all the same.
UpdateKind(prev, updates) ==
  IF Carries(updates, "plinthPos") THEN "plinthPos"
  ELSE IF nextConfig(prev, updates).plinthPos # prev.plinthPos THEN "moved"
  ELSE "sizes"

updateConfig(updates) ==
  /\ config' = nextConfig(config, updates)
  /\ lastOp' = Op("updateConfig", UpdateKind(config, updates))
  /\ UNCHANGED <<textureCache, modelCache, usageTracker, cleanupInterval,
                 nextCleanup, now, calls, batches, disposeCount, outstanding,
                 lodVars, activeDragId>>

\* Scene: const [activeDragId, setActiveDragId] = useState(null)
NoId == "null"
DragIds == {"plinth", "monument", "vase"}

\* A click that makes its object the active one whatever is being dragged.
handleHandleClickTaking(id) ==
  /\ activeDragId' = IF activeDragId = id THEN NoId ELSE id
  /\ lastOp' = Op("handleHandleClick", id)
  /\ UNCHANGED <<textureCache, modelCache, usageTracker, cleanupInterval,
                 nextCleanup, now, calls, batches, disposeCount, outstanding,
                 lodVars, config>>

\* const isDragging = activeId === id
isDragging(id) == activeDragId = id

\* Draggable.handleHandleClick of the object id
handleHandleClick(id) ==
  /\ activeDragId' = IF activeDragId = NoId THEN id
                     ELSE IF activeDragId = id THEN NoId
                     ELSE activeDragId
  /\ lastOp' = Op("handleHandleClick", id)
  /\ UNCHANGED <<textureCache, modelCache, usageTracker, cleanupInterval,
                 nextCleanup, now, calls, batches, disposeCount, outstanding,
                 lodVars, config>>

\* The window click listener the dragged object has registered.
handleGlobalClick ==
  /\ activeDragId # NoId
  /\ activeDragId' = NoId
  /\ lastOp' = Op("handleGlobalClick", "")
  /\ UNCHANGED <<textureCache, modelCache, usageTracker, cleanupInterval,
                 nextCleanup, now, calls, batches, disposeCount, outstanding,
                 lodVars, config>>

\* Draggable.frameHandler of the plinth while it is dragged: the point under
\* the pointer is clamped to the site and, when it differs from the current
\* position, passed on through onMove to updateConfig({ plinthPos }).
frameHandler(point) ==
  /\ activeDragId = "plinth"
  /\ LET halfWidth == config.plinthWidth \div 2
         halfLength == config.plinthLength \div 2
         newX == Max(halfWidth - config.siteWidth \div 2,
                     Min(config.siteWidth \div 2 - halfWidth, point.x))
         newZ == Max(halfLength - config.siteLength \div 2,
                     Min(config.siteLength \div 2 - halfLength, point.y))
     IN /\ newX # config.plinthPos.x \/ newZ # config.plinthPos.y
        /\ config' = nextConfig(config,
                       [plinthPos |-> [x |-> newX, y |-> newZ]])
  /\ lastOp' = Op("frameHandler", "plinth")
  /\ UNCHANGED <<textureCache, modelCache, usageTracker, cleanupInterval,
                 nextCleanup, now, calls, batches, disposeCount, outstanding,
                 lodVars, activeDragId>>

\* ----------------------------------------------------------- specification
\* The state right after `new ResourceManager()`: empty maps, timer armed.
Init ==
  /\ textureCache = EmptyMap
  /\ modelCache = EmptyMap
  /\ usageTracker = EmptyMap
  /\ cleanupInterval = TRUE
  /\ nextCleanup = CLEANUP_PERIOD
  /\ now = 0
  /\ calls = <<>>
  /\ batches = <<>>
  /\ disposeCount = [h \in Handles |-> 0]
  /\ outstanding = [k \in Keys |-> 0]
  /\ lastOp = Op("constructor", "")
  /\ lods = EmptyMap
  /\ lodObjects = <<>>
  /\ config = InitialConfig
  /\ activeDragId = NoId

\* Loads in flight resume in any order, with either outcome.
Resume ==
  \/ \E c \in CallIds : getTextureLoaded(c)
  \/ \E c \in CallIds : getTextureFailed(c)
  \/ \E c \in CallIds : getModelLoaded(c)
  \/ \E c \in CallIds : getModelFailed(c)

\* The cache under single acquisitions, releases and clearAll, within the
\* first cleanup period (the clock stands, the timer does not fire).
Next ==
  \/ \E u \in TextureUrls, o \in OptionsSet : getTexture(u, o)
  \/ \E u \in ModelUrls : getModel(u)
  \/ Resume
  \/ \E url \in ReleaseArgs : releaseResource(url)
  \/ clearAll

Spec == Init /\ [][Next]_vars

\* The same with time passing, the cleanup timer firing and the teardown.
NextSweep ==
  \/ \E u \in SweepUrls, o \in OptionsSet : getTexture(u, o)
  \/ \E u \in ModelUrls : getModel(u)
  \/ Resume
  \/ \E url \in ReleaseArgs : releaseResource(url)
  \/ cleanupUnusedResources
  \/ clearAll
  \/ destroy
  \/ Tick

SpecSweep == Init /\ [][NextSweep]_vars

\* The LOD manager on top of the cache: LODs are built and dropped while
\* models load and are released, within the first cleanup period.
NextLOD ==
  \/ \E u \in ModelUrls, d \in DistanceLists : createLOD(u, d)
  \/ clearLODs
  \/ \E u \in ModelUrls : getModel(u)
  \/ \E c \in CallIds : getModelLoaded(c)
  \/ \E c \in CallIds : getModelFailed(c)
  \/ \E url \in ModelUrls : releaseResource(url)

SpecLOD == Init /\ [][NextLOD]_vars

\* The cache under batch preloads, releases and clearAll.
NextPreload ==
  \/ \E urls \in SeqsUpTo(TextureUrls, MaxBatch) : preloadTextures(urls)
  \/ \E urls \in SeqsUpTo(ModelUrls, MaxBatch) : preloadModels(urls)
  \/ Resume
  \/ \E url \in ReleaseArgs : releaseResource(url)
  \/ clearAll

SpecPreload == Init /\ [][NextPreload]_vars

\* The configurator: the sidebar resizes the site and the plinth, the move
\* handles start and end drags, a dragged plinth follows the pointer.
NextApp ==
  \/ \E updates \in Updates : updateConfig(updates)
  \/ \E id \in DragIds : handleHandleClick(id)
  \/ handleGlobalClick
  \/ \E point \in Points : frameHandler(point)

SpecApp == Init /\ [][NextApp]_vars

\* ================================================================== claims

\* C1: load deduplication.  Of the acquisitions of one key that are issued
\* before the first of them has resolved only one starts the loader: at
\* every moment at most one load is in flight per key.
C1_OneLoadInFlightPerKey ==
  \A k \in Keys : /\ Cardinality(InFlight("texture", k)) <= 1
                  /\ Cardinality(InFlight("model", k)) <= 1

\* C2: all acquisitions of a key that are issued before the key resolves
\* observe one and the same outcome: two calls whose loads of the key
\* overlapped resolve to the same value (the same handle, or both the
\* failure).
C2_OverlappingCallsAgree ==
  \A c \in CallIds : \A d \in calls[c].overlap :
     (calls[c].status = "fulfilled" /\ calls[d].status = "fulfilled")
        => calls[c].result = calls[d].result

\* C3: the refCount of an entry equals the number of acquisitions of its key
\* that have not yet been released, those that joined a load in flight
\* included.
C3_RefCountIsOutstanding ==
  \A k \in DOMAIN usageTracker :
     usageTracker[k].referenceCount = outstanding[k]

\* What a step leaves of the entry of key k: its usage record, the handles
\* cached under k and the dispose counts of those handles.
EntryUntouched(k) ==
  /\ MapHas(usageTracker, k) => /\ MapHas(usageTracker', k)
                                /\ usageTracker'[k] = usageTracker[k]
  /\ MapHas(textureCache, k) =>
       /\ MapHas(textureCache', k)
       /\ textureCache'[k] = textureCache[k]
       /\ disposeCount'[textureCache[k]] = disposeCount[textureCache[k]]
  /\ MapHas(modelCache, k) =>
       /\ MapHas(modelCache', k)
       /\ modelCache'[k] = modelCache[k]
       /\ disposeCount'[modelCache[k]] = disposeCount[modelCache[k]]

Idle(k) == now - usageTracker[k].lastUsed

\* C4: the periodic sweep never evicts or disposes an entry whose refCount
\* is greater than 0, whatever its idle time.
C4_SweepSparesReferenced ==
  [][lastOp'.op = "cleanupUnusedResources" =>
       \A k \in DOMAIN usageTracker :
          usageTracker[k].referenceCount > 0 => EntryUntouched(k)]_vars

\* C4 witness: a sweep has just run over a referenced entry that had been
\* idle for longer than the threshold of its kind, and the entry is there.
C4_Witness ==
  /\ lastOp.op = "cleanupUnusedResources"
  /\ \E k \in DOMAIN usageTracker :
        /\ usageTracker[k].referenceCount > 0
        /\ Idle(k) > Threshold(usageTracker[k])
        /\ MapHas(textureCache, k) \/ MapHas(modelCache, k)

\* C5: after all holders of a key have released it the entry is still there
\* with refCount 0; the sweep evicts it once it has been idle for longer
\* than the threshold of its kind, and spares it while it has not.
C5_ReleasedEntryWaitsForSweep ==
  [][/\ \A k \in DOMAIN usageTracker :
          (/\ lastOp' = Op("releaseResource", k)
           /\ outstanding[k] > 0 /\ outstanding'[k] = 0)
          => /\ MapHas(usageTracker', k)
             /\ usageTracker'[k].referenceCount = 0
     /\ \A k \in DOMAIN usageTracker :
          (lastOp'.op = "cleanupUnusedResources" /\ outstanding[k] = 0)
          => IF Idle(k) > Threshold(usageTracker[k])
             THEN ~MapHas(usageTracker', k)
             ELSE EntryUntouched(k)]_vars

\* C6: releaseResource(key) decrements the refCount of the entry by exactly
\* 1, never below 0, and leaves the entry in the store with its handle
\* undisposed.
C6_ReleaseDecrements ==
  [][\A k \in DOMAIN usageTracker :
        lastOp' = Op("releaseResource", k)
        => /\ MapHas(usageTracker', k)
           /\ usageTracker'[k].referenceCount
                = Max(usageTracker[k].referenceCount - 1, 0)
           /\ textureCache' = textureCache
           /\ modelCache' = modelCache
           /\ disposeCount' = disposeCount]_vars

\* C7: a forced eviction of a key disposes and removes the entry only when
\* its refCount is 0; on an entry with refCount > 0 it leaves the entry,
\* its handle and its usage record unchanged.
C7_EvictionOnlyWhenUnreferenced ==
  [][\A k \in DOMAIN usageTracker :
        (/\ lastOp' = Op("releaseResource", k)
         /\ usageTracker[k].referenceCount > 0)
        => /\ EntryUntouched(k)
           /\ disposeCount' = disposeCount]_vars

StoreEmpty ==
  /\ DOMAIN textureCache = {}
  /\ DOMAIN modelCache = {}
  /\ DOMAIN usageTracker = {}

C9_ClearedLoadIsDiscarded ==
  [][\A c \in CallIds :
        (/\ Loading(c) /\ calls[c].cleared
         /\ calls'[c].status = "fulfilled" /\ calls'[c].result # Null)
        => /\ textureCache' = textureCache
           /\ modelCache' = modelCache
           /\ usageTracker' = usageTracker
           /\ disposeCount'[calls'[c].result]
                = disposeCount[calls'[c].result] + 1]_vars

\* The key whose load produced handle h.
KeyOfHandle(h) ==
  IF h \in TextureHandles THEN calls[h].key ELSE ModelUrlSeq[h - MaxCalls]

CacheOf(kind) == IF kind = "texture" THEN textureCache ELSE modelCache

\* C10: a batch preload is never rejected; it is fulfilled once every one of
\* its acquisitions has ended, failures included, with one result per
\* requested key in request order, a failed load giving null at its own
\* index only; and a load of the batch that succeeds is stored in the cache
\* whatever became of its siblings.
C10_PreloadIsPerItem ==
  /\ [](\A b \in 1..Len(batches) :
          LET B == batches[b]
              cs == BatchCalls(calls, b)
          IN /\ B.status # "rejected"
             /\ Cardinality(cs) = Len(B.keys)
             /\ (\A c \in cs : ~Loading(c)) => B.status = "fulfilled"
             /\ B.status = "fulfilled" =>
                  /\ Len(B.results) = Len(B.keys)
                  /\ \A i \in 1..Len(B.keys) :
                        /\ B.results[i] = calls[CallAt(calls, b, i)].result
                        /\ calls[CallAt(calls, b, i)].key = B.keys[i]
                        /\ B.results[i] # Null
                             => KeyOfHandle(B.results[i]) = B.keys[i])
  /\ [][\A c \in CallIds :
          (/\ Loading(c) /\ calls[c].batch # 0
           /\ lastOp'.op \in {"getTextureLoaded", "getModelLoaded"}
           /\ calls'[c].status # "loading")
          => /\ calls'[c].result # Null
             /\ MapHas(CacheOf(calls[c].kind)', calls[c].key)
             /\ CacheOf(calls[c].kind)'[calls[c].key] = calls'[c].result]_vars

\* C10 witness: a batch is fulfilled by the successful load of one key after
\* the load of an earlier key of the batch had failed; the result of the
\* failed one is null and the other one is in the cache.
C10_Witness ==
  \E b \in 1..Len(batches) :
     /\ batches[b].status = "fulfilled"
     /\ \E i, j \in 1..Len(batches[b].keys) :
           /\ i < j
           /\ batches[b].keys[i] # batches[b].keys[j]
           /\ batches[b].results[i] = Null
           /\ batches[b].results[j] # Null
           /\ lastOp = Op("getTextureLoaded", batches[b].keys[j])
           /\ MapHas(textureCache, batches[b].keys[j])
           /\ textureCache[batches[b].keys[j]] = batches[b].results[j]

\* The call an acquisition step has just issued.
IssuedCall == calls'[Len(calls')]
IsAcquisition == lastOp'.op \in {"getTexture", "getModel"}

IsHit ==
  /\ IsAcquisition
  /\ MapHas(CacheOf(IssuedCall.kind), IssuedCall.key)

\* C12: an acquisition of a key whose entry is resolved is a cache hit: it
\* starts no load, returns the handle stored in the entry, increments the
\* refCount of the entry by exactly 1, sets its lastUsed to the current
\* time and changes no other entry.
C12_HitCountsAndRefreshes ==
  [][IsHit =>
       LET k == IssuedCall.key
           cache == CacheOf(IssuedCall.kind)
       IN /\ IssuedCall.status = "fulfilled"
          /\ IssuedCall.result = cache[k]
          /\ \A kind \in {"texture", "model"} :
                \A x \in Keys : LoadingIn(calls', kind, x) = InFlight(kind, x)
          /\ MapHas(usageTracker, k)
          /\ DOMAIN usageTracker' = DOMAIN usageTracker
          /\ usageTracker'[k].referenceCount
               = usageTracker[k].referenceCount + 1
          /\ usageTracker'[k].lastUsed = now
          /\ usageTracker'[k].type = usageTracker[k].type
          /\ \A x \in DOMAIN usageTracker \ {k} :
                usageTracker'[x] = usageTracker[x]
          /\ textureCache' = textureCache
          /\ modelCache' = modelCache
          /\ disposeCount' = disposeCount]_vars

\* C12 witness: a hit has just been served at a later time than the entry
\* was stored: the call resolved to the cached handle of an earlier call,
\* the refCount is 2 and lastUsed is the current time.
C12_Witness ==
  /\ lastOp.op = "getTexture"
  /\ now > 0
  /\ LET d == Len(calls) IN
       /\ d > 1
       /\ calls[d].status = "fulfilled"
       /\ calls[d].result \in 1..(d - 1)
       /\ MapHas(textureCache, calls[d].key)
       /\ textureCache[calls[d].key] = calls[d].result
       /\ usageTracker[calls[d].key].referenceCount = 2
       /\ usageTracker[calls[d].key].lastUsed = now

\* C13: an entry moves absent -> pending -> resolved -> disposed, so while
\* a key stays in the store the handle its entry holds is never replaced
\* by another one.
C13_ResolvedHandleIsStable ==
  [][\A k \in DOMAIN textureCache :
        k \in DOMAIN textureCache' => textureCache'[k] = textureCache[k]]_vars

\* C14: under any interleaving of acquisitions, releases, sweeps and
\* clearAll, dispose is invoked at most once on any given handle.
C14_DisposeAtMostOnce ==
  \A h \in Handles : disposeCount[h] <= 1

\* C14 witness: a clearAll has just run after an eviction: the handle of an
\* earlier call was disposed by the eviction, the handle of a later call on
\* the same key by clearAll, each once.
C14_Witness ==
  /\ lastOp.op = "clearAll"
  /\ \E c, d \in CallIds :
        /\ c < d
        /\ calls[c].kind = "texture" /\ calls[d].kind = "texture"
        /\ calls[c].key = calls[d].key
        /\ calls[c].result = c /\ calls[d].result = d
        /\ disposeCount[c] = 1 /\ disposeCount[d] = 1

\* The cache entries that hold texture handle h.
OwnersOf(h) == {k \in DOMAIN textureCache : textureCache[k] = h}

\* C15: every handle produced by a successful decode is either owned by
\* exactly one cache entry or already disposed; none is dropped from the
\* store without dispose having been invoked on it (stated here for the
\* texture handles).
C15_HandleOwnedOrDisposed ==
  \A c \in CallIds :
     (/\ calls[c].kind = "texture"
      /\ calls[c].status = "fulfilled"
      /\ calls[c].result = c)
     => \/ Cardinality(OwnersOf(c)) = 1 /\ disposeCount[c] = 0
        \/ OwnersOf(c) = {} /\ disposeCount[c] >= 1

\* C16: when every outstanding reference to a key has been released while
\* its load was in flight, the load still completes and installs its
\* result, and the installed entry has refCount 0.
C16_ReleasedLoadInstallsUnreferenced ==
  [][\A k \in TextureKeys :
        (/\ lastOp' = Op("getTextureLoaded", k)
         /\ outstanding[k] = 0)
        => /\ MapHas(textureCache', k)
           /\ MapHas(usageTracker', k)
           /\ usageTracker'[k].referenceCount = 0]_vars

\* C17: a cache lookup never hands out a disposed handle: a handle is
\* removed from the cache in the step that disposes it, so no cache holds
\* a disposed handle and no acquisition resolves at once to one.
C17_NoDisposedHandleHandedOut ==
  /\ [](/\ \A k \in DOMAIN textureCache : disposeCount[textureCache[k]] = 0
        /\ \A k \in DOMAIN modelCache : disposeCount[modelCache[k]] = 0)
  /\ [][(IsAcquisition /\ IssuedCall.status = "fulfilled")
          => /\ IssuedCall.result # Null
             /\ disposeCount'[IssuedCall.result] = 0]_vars

\* C17 witness: a key is looked up after the handle an earlier call had
\* stored under it was disposed; the lookup misses and starts a load.
C17_Witness ==
  \E c, d \in CallIds :
     /\ c < d /\ d = Len(calls)
     /\ calls[c].kind = "texture"
     /\ calls[c].result = c
     /\ disposeCount[c] = 1
     /\ lastOp = Op("getTexture", calls[c].key)
     /\ calls[d].key = calls[c].key
     /\ calls[d].status = "loading"

\* C18: the refCount of an entry is never negative, under any sequence of
\* acquisitions and releases.
C18_RefCountNonNegative ==
  \A k \in DOMAIN usageTracker : usageTracker[k].referenceCount >= 0

\* C18 witness: a release has just removed the entry of one key, after
\* releases outnumbered the acquisitions of that key or matched them, while
\* another key is still counted.
C18_Witness ==
  \E c, d \in CallIds :
     /\ calls[c].kind = "texture" /\ calls[c].result = c
     /\ lastOp = Op("releaseResource", calls[c].key)
     /\ disposeCount[c] = 1
     /\ outstanding[calls[c].key] = 0
     /\ calls[d].key # calls[c].key
     /\ MapHas(usageTracker, calls[d].key)
     /\ usageTracker[calls[d].key].referenceCount >= 1

\* C19: a release of a key that has no matching prior acquisition (the key
\* is absent from the store, or its refCount is already 0) is reported as
\* an UnbalancedRelease error and leaves the store unchanged.
C19_UnbalancedReleaseIsReported ==
  [][\A k \in ReleaseArgs :
        (/\ lastOp' = Op("releaseResource", k)
         /\ \/ ~MapHas(usageTracker, k)
            \/ usageTracker[k].referenceCount = 0)
        => /\ releaseOutcome(Store, k) = "UnbalancedRelease"
           /\ textureCache' = textureCache
           /\ modelCache' = modelCache
           /\ usageTracker' = usageTracker]_vars

\* C20: logically identical requests address one cache entry: omitted
\* options and an empty options object give the same key, and a release of
\* an asset acquired by its location removes the entry that acquisition
\* created, from the cache and from the usage tracker.
C20_SameAssetSameKey ==
  [][\A u \in TextureUrls :
        /\ cacheKey(u, NoOptions) = cacheKey(u, EmptyOptions)
        /\ (/\ lastOp' = Op("releaseResource", u)
            /\ MapHas(textureCache, cacheKey(u, NoOptions)))
           => /\ ~MapHas(textureCache', cacheKey(u, NoOptions))
              /\ ~MapHas(usageTracker', cacheKey(u, NoOptions))]_vars

\* The getModel call an LOD object waits for has delivered a model.
BaseModelLoaded(lod) ==
  /\ calls[lod.call].status = "fulfilled"
  /\ calls[lod.call].result # Null

\* How often distance d occurs in the array.
Occurrences(distances, d) ==
  Cardinality({i \in 1..Len(distances) : distances[i] = d})

\* C21: when the base model loads successfully, the LOD built for distances
\* d_1..d_n has exactly n + 1 levels: the full model at distance 0 and one
\* variant per requested distance.
C21_LODHasAllLevels ==
  \A o \in 1..Len(lodObjects) :
     LET lod == lodObjects[o] IN
     BaseModelLoaded(lod) =>
        /\ Len(lod.levels) = Len(lod.distances) + 1
        /\ lod.levels[1] = [distance |-> 0, object |-> "full"]
        /\ \A i \in 2..Len(lod.levels) : lod.levels[i].object = "simplified"
        /\ \A i \in 1..Len(lod.distances) :
              Cardinality({l \in 2..Len(lod.levels) :
                             lod.levels[l].distance = lod.distances[i]})
                = Occurrences(lod.distances, lod.distances[i])

\* C21 witness: the LOD built for the distances 20, 10 is in the table and
\* its model was loaded after createLOD returned: three levels, at 0, 10, 20.
C21_Witness ==
  \E k \in DOMAIN lods :
     LET lod == lodObjects[lods[k]] IN
     /\ lod.distances = <<20, 10>>
     /\ BaseModelLoaded(lod)
     /\ calls[lod.call].result = gltf(lod.url)
     /\ lastOp = Op("getModelLoaded", lod.url)
     /\ Len(lod.levels) = 3
     /\ lod.levels[2].distance = 10
     /\ lod.levels[3].distance = 20

\* The getModel call an LOD object waits for has failed (resolved to null).
BaseModelFailed(lod) ==
  /\ calls[lod.call].status = "fulfilled"
  /\ calls[lod.call].result = Null

\* C22: when the base model fails to load, no LOD object is produced: none
\* is kept in the LOD table for that key.
C22_FailedLoadLeavesNoLOD ==
  \A k \in DOMAIN lods : ~BaseModelFailed(lodObjects[lods[k]])

\* C23: an LOD object holds a reference on its base model while it lives,
\* and clearLODs releases it: for every model that has an LOD in the table
\* and an entry in the cache, clearLODs lowers the refCount of the entry.
C23_ClearLODsReleasesBaseModel ==
  [][lastOp'.op = "clearLODs" =>
       \A k \in DOMAIN lods :
          LET url == lodObjects[lods[k]].url IN
          MapHas(usageTracker, url) =>
             \/ ~MapHas(usageTracker', url)
             \/ usageTracker'[url].referenceCount
                  < usageTracker[url].referenceCount]_vars

\* The entries the condition of the sweep holds for in the current state.
Marked ==
  {k \in DOMAIN usageTracker :
     /\ usageTracker[k].referenceCount = 0
     /\ now - usageTracker[k].lastUsed > Threshold(usageTracker[k])}

\* A map without the keys of a set.
Without(m, ks) == [k \in (DOMAIN m) \ ks |-> m[k]]

C26_TrackerMatchesCaches ==
  DOMAIN usageTracker = (DOMAIN textureCache) \cup (DOMAIN modelCache)

\* C26 witness: a release has just removed a texture and its record, and a
\* model is still cached and tracked.
C26_Witness ==
  /\ lastOp.op = "releaseResource"
  /\ \E c \in CallIds : calls[c].result = c /\ disposeCount[c] = 1
                        /\ ~MapHas(usageTracker, calls[c].key)
  /\ \E u \in DOMAIN modelCache : MapHas(usageTracker, u)

C28_SiteExceedsPlinth ==
  /\ config.siteWidth >= config.plinthWidth + 100
  /\ config.siteLength >= config.plinthLength + 100

\* C28 witness: an update of sizes has just enlarged the plinth beyond what
\* the site allowed, and the site has grown to the plinth plus 100.
C28_Witness ==
  /\ lastOp = Op("updateConfig", "sizes")
  /\ config.plinthWidth = 300 /\ config.siteWidth = 400
  /\ config.plinthLength = 300 /\ config.siteLength = 400

\* C29: after every updateConfig the plinth lies inside the site:
\* |plinthPos.x| <= (siteWidth - plinthWidth) / 2 and
\* |plinthPos.y| <= (siteLength - plinthLength) / 2.
C29_PlinthInsideSite ==
  /\ 2 * Abs(config.plinthPos.x) <= config.siteWidth - config.plinthWidth
  /\ 2 * Abs(config.plinthPos.y) <= config.siteLength - config.plinthLength

\* C29 witness: an update that does not mention plinthPos has just moved
\* the plinth, which now stands against a corner of the smaller margin.
C29_Witness ==
  /\ lastOp = Op("updateConfig", "moved")
  /\ config.siteWidth - config.plinthWidth = 100
  /\ config.siteLength - config.plinthLength = 100
  /\ config.plinthPos = [x |-> 50, y |-> -50]

\* C30: at most one object is dragged at any time, and a click on the move
\* handle of an object starts its drag only when nothing is active, ends
\* the drag when that object is the active one, and changes nothing when
\* another object is active.
C30_OneDragAtATime ==
  /\ [](Cardinality({id \in DragIds : isDragging(id)}) <= 1)
  /\ [][\A id \in DragIds :
          lastOp' = Op("handleHandleClick", id) =>
             /\ activeDragId = NoId => activeDragId' = id
             /\ activeDragId = id => activeDragId' = NoId
             /\ activeDragId \notin {NoId, id} =>
                  activeDragId' = activeDragId]_vars

\* C30 witness: the handle of the monument has just been clicked while the
\* plinth was being dragged, and the plinth is still the active object.
C30_Witness ==
  /\ lastOp = Op("handleHandleClick", "monument")
  /\ activeDragId = "plinth"
  /\ isDragging("plinth") /\ ~isDragging("monument")

====
